---- MODULE Spec2Model ----
(***************************************************************************)
(* The two-stage crawler of health_scraper:                                *)
(*   collect_links.py          BlogSpider     (the Link Collector)         *)
(*   get_content_and_store.py  ContentSpider  (the Content Harvester)      *)
(* A Python str is a sequence of one-character strings; a URL is a         *)
(* sequence of lexical pieces (host, path segments, "?", "page=", ...), so *)
(* that substring tests and joins are computed, not assumed.               *)
(***************************************************************************)
EXTENDS Integers, Sequences, FiniteSets, TLC

VARIABLES
    stage,          \* what is going on: "off", "collect", "harvest", "split", "split_done"
    ran,            \* whether a spider process has run in this behaviour
    file,           \* /app/data/links.json: [exists, data]
    prior,          \* the file as BlogSpider.__init__ found it, until the engine starts
    pending,        \* the scheduler's queue of requests not yet downloaded
    seen,           \* the dupefilter's set of request URLs
    frame,          \* the BlogSpider.parse call in progress (or NoFrame)
    saved,          \* URLs passed to save_link during this collector run, in order
    parsed,         \* listing URLs whose responses BlogSpider.parse has handled, in order
    yielded,        \* requests yielded by BlogSpider.parse, in order
    failed,         \* URLs whose download failed (no callback is invoked)
    links,          \* ContentSpider.links
    cursor,         \* position of the start_requests generator in links
    calls,          \* the vectorstore.add calls made, in order
    index,          \* the external vector index: id -> [document, link]
    handled,        \* per parse_page call: [url, body, added]
    split_in,       \* the text handed to the splitter
    splitter,       \* the splitter's configuration [chunk_size, chunk_overlap]
    split_out       \* the chunks split_text returned

vars == <<stage, ran, file, prior, pending, seen, frame, saved, parsed, yielded, failed,
          links, cursor, calls, index, handled, split_in, splitter, split_out>>

----------------------------------------------------------------------------
(* Bounds of the model *)

\* chunk_size=1000 of the source, scaled so that model-sized texts are split
chunk_size == 4
\* chunk_overlap=100 of the source, scaled likewise
chunk_overlap == 1
\* the longest text handed to the splitter on its own
MaxText == 5

----------------------------------------------------------------------------
(* Python str *)

Whitespace == {" ", "\n"}

RECURSIVE lstrip(_)
lstrip(s) == IF s # <<>> /\ Head(s) \in Whitespace THEN lstrip(Tail(s)) ELSE s

RECURSIVE rstrip(_)
rstrip(s) ==
    IF s # <<>> /\ s[Len(s)] \in Whitespace THEN rstrip(SubSeq(s, 1, Len(s) - 1)) ELSE s

strip(s) == rstrip(lstrip(s))

RECURSIVE join(_, _)
join(sep, parts) ==
    IF parts = <<>> THEN <<>>
    ELSE IF Len(parts) = 1 THEN parts[1]
    ELSE parts[1] \o sep \o join(sep, Tail(parts))

\* `sub in s`
Contains(s, sub) ==
    \E i \in 1..(Len(s) - Len(sub) + 1) : SubSeq(s, i, i + Len(sub) - 1) = sub

----------------------------------------------------------------------------
(* RecursiveCharacterTextSplitter(chunk_size, chunk_overlap), with its      *)
(* defaults: separators ["\n\n", "\n", " ", ""], keep_separator=True,       *)
(* strip_whitespace=True, length_function=len.                              *)

separators == << <<"\n", "\n">>, <<"\n">>, <<" ">>, <<>> >>

\* re.split("(sep)", text) with each separator glued to the piece after it:
\* the text is cut before every (leftmost, non-overlapping) match
RECURSIVE cut_before(_, _, _, _, _)
cut_before(text, sep, i, start, acc) ==
    IF i > Len(text) - Len(sep) + 1
    THEN Append(acc, SubSeq(text, start, Len(text)))
    ELSE IF SubSeq(text, i, i + Len(sep) - 1) = sep
         THEN cut_before(text, sep, i + Len(sep), i,
                         Append(acc, SubSeq(text, start, i - 1)))
         ELSE cut_before(text, sep, i + 1, start, acc)

_split_text_with_regex(text, sep) ==
    IF sep = <<>>
    THEN [i \in 1..Len(text) |-> <<text[i]>>]
    ELSE SelectSeq(cut_before(text, sep, 1, 1, <<>>), LAMBDA s : s # <<>>)

\* None is modelled by the empty text: _join_docs returns None exactly then
_join_docs(docs, separator) == strip(join(separator, docs))

\* the `while` without its `total > self._chunk_overlap` condition: splits are
\* dropped only to make room for the next one
RECURSIVE pop_loop_keep(_, _, _, _, _, _)
pop_loop_keep(current_doc, total, len, seplen, C, O) ==
    IF total + len + (IF Len(current_doc) > 0 THEN seplen ELSE 0) > C /\ total > 0
    THEN pop_loop_keep(Tail(current_doc),
                       total - (Len(Head(current_doc))
                                + (IF Len(current_doc) > 1 THEN seplen ELSE 0)),
                       len, seplen, C, O)
    ELSE [current_doc |-> current_doc, total |-> total]

\* the `while` of _merge_splits
RECURSIVE pop_loop(_, _, _, _, _, _)
pop_loop(current_doc, total, len, seplen, C, O) ==
    IF total > O
       \/ (total + len + (IF Len(current_doc) > 0 THEN seplen ELSE 0) > C /\ total > 0)
    THEN pop_loop(Tail(current_doc),
                  total - (Len(Head(current_doc))
                           + (IF Len(current_doc) > 1 THEN seplen ELSE 0)),
                  len, seplen, C, O)
    ELSE [current_doc |-> current_doc, total |-> total]

\* the `for d in splits` of _merge_splits
RECURSIVE merge_loop(_, _, _, _, _, _, _)
merge_loop(splits, docs, current_doc, total, separator, C, O) ==
    IF splits = <<>>
    THEN LET doc == _join_docs(current_doc, separator)
         IN  IF doc # <<>> THEN Append(docs, doc) ELSE docs
    ELSE LET d == Head(splits)
             len == Len(d)
             seplen == Len(separator)
             over == total + len + (IF Len(current_doc) > 0 THEN seplen ELSE 0) > C
             flush == over /\ Len(current_doc) > 0
             doc == _join_docs(current_doc, separator)
             docs1 == IF flush /\ doc # <<>> THEN Append(docs, doc) ELSE docs
             kept == IF flush
                     THEN pop_loop(current_doc, total, len, seplen, C, O)
                     ELSE [current_doc |-> current_doc, total |-> total]
             doc2 == Append(kept.current_doc, d)
             total2 == kept.total + len + (IF Len(doc2) > 1 THEN seplen ELSE 0)
         IN  merge_loop(Tail(splits), docs1, doc2, total2, separator, C, O)

_merge_splits(splits, separator, C, O) ==
    merge_loop(splits, <<>>, <<>>, 0, separator, C, O)

\* the first separator that is "" or occurs in the text
FirstSeparator(text, seps) ==
    LET hits == {i \in 1..Len(seps) : seps[i] = <<>> \/ Contains(text, seps[i])}
    IN  IF hits = {} THEN 0 ELSE CHOOSE i \in hits : \A j \in hits : i <= j

RECURSIVE _split_text(_, _, _, _)
RECURSIVE split_loop(_, _, _, _, _, _)

\* the `for s in splits` of _split_text
split_loop(splits, good, final, new_separators, C, O) ==
    IF splits = <<>>
    THEN IF good # <<>> THEN final \o _merge_splits(good, <<>>, C, O) ELSE final
    ELSE LET s == Head(splits)
         IN  IF Len(s) < C
             THEN split_loop(Tail(splits), Append(good, s), final, new_separators, C, O)
             ELSE LET final1 == IF good # <<>>
                                THEN final \o _merge_splits(good, <<>>, C, O)
                                ELSE final
                      final2 == IF new_separators = <<>>
                                THEN Append(final1, s)
                                ELSE final1 \o _split_text(s, new_separators, C, O)
                  IN  split_loop(Tail(splits), <<>>, final2, new_separators, C, O)

_split_text(text, seps, C, O) ==
    LET k == FirstSeparator(text, seps)
        separator == IF k = 0 THEN seps[Len(seps)] ELSE seps[k]
        new_separators == IF k = 0 \/ separator = <<>>
                          THEN <<>>
                          ELSE SubSeq(seps, k + 1, Len(seps))
        splits == _split_text_with_regex(text, separator)
    IN  split_loop(splits, <<>>, <<>>, new_separators, C, O)

split_text(cfg, text) == _split_text(text, separators, cfg.chunk_size, cfg.chunk_overlap)

\* self.text_splitter of ContentSpider.__init__
text_splitter == [chunk_size |-> chunk_size, chunk_overlap |-> chunk_overlap]

----------------------------------------------------------------------------
(* Idle values *)

NoFrame == [active |-> FALSE]
NoFile == [exists |-> FALSE, data |-> <<>>]
EmptyIndex == [i \in {} |-> 0]

----------------------------------------------------------------------------
(* URLs *)

Host == "https://www.health.harvard.edu"

PathSegments == {"/blog", "/a", "/b", "/x", "/about", "/old"}

\* BlogSpider.start_urls
start_urls == << <<Host, "/blog">> >>

\* the URL up to its query string
WithoutQuery(url) ==
    LET qs == {i \in 1..Len(url) : url[i] = "?"}
    IN  IF qs = {} THEN url
        ELSE SubSeq(url, 1, (CHOOSE i \in qs : \A j \in qs : i <= j) - 1)

\* response.urljoin(href): an absolute href stands, a path replaces the base's
\* path and query, a bare query replaces the base's query, "" is the base
urljoin(base, href) ==
    IF href = <<>> THEN base
    ELSE IF href[1] = Host THEN href
    ELSE IF href[1] \in PathSegments THEN <<base[1]>> \o href
    ELSE WithoutQuery(base) \o href

\* the list without its later duplicates (LinkExtractor's unique=True)
RECURSIVE unique_list(_, _)
unique_list(list, acc) ==
    IF list = <<>> THEN acc
    ELSE IF \E i \in 1..Len(acc) : acc[i] = Head(list)
         THEN unique_list(Tail(list), acc)
         ELSE unique_list(Tail(list), Append(acc, Head(list)))

\* re.search(r'/blog', url) of LinkExtractor(allow=r'/blog')
allow(url) == Contains(url, <<"/blog">>)

\* LinkExtractor(restrict_css=..., allow=r'/blog').extract_links(response):
\* the anchors of the restricted region, made absolute, matched against
\* allow, without duplicates, in document order
extract_links(response) ==
    LET inside == SelectSeq(response.anchors, LAMBDA a : a.in_region)
        urls == [i \in 1..Len(inside) |-> urljoin(response.url, inside[i].href)]
    IN  unique_list(SelectSeq(urls, allow), <<>>)

\* `"?page=" not in link.url`
not_pagination(url) == ~Contains(url, <<"?", "page=">>)

\* `if next_page:` on the value of response.css('a[rel="next"]::attr(href)').get()
truthy(next_page) == next_page.found /\ next_page.href # <<>>

----------------------------------------------------------------------------
(* JSON text, as a sequence of tokens, and the link file *)

P(c) == [t |-> c, v |-> <<>>]
Str(v) == [t |-> "str", v |-> v]
WS == P("ws")

RECURSIVE dump_items(_, _)
dump_items(data, indented) ==
    IF data = <<>> THEN <<>>
    ELSE (IF indented THEN <<WS, P("{"), WS>> ELSE <<P("{")>>)
         \o <<Str(<<"url">>), P(":"), WS, Str(data[1].url)>>
         \o (IF indented THEN <<WS, P("}")>> ELSE <<P("}")>>)
         \o (IF Len(data) > 1 THEN <<P(",")>> \o (IF indented THEN <<>> ELSE <<WS>>)
             ELSE IF indented THEN <<WS>> ELSE <<>>)
         \o dump_items(Tail(data), indented)

\* json.dump(data, f) and json.dump(data, f, indent=4) of a list of {"url": ...}
json_dump(data, indented) == <<P("[")>> \o dump_items(data, indented) \o <<P("]")>>

\* json.load(f) of an array of {"url": <string>} objects: [ok, value];
\* ok is FALSE where json.load raises
json_load(text) ==
    LET toks == SelectSeq(text, LAMBDA k : k.t # "ws")
        n == Len(toks)
        inner == SubSeq(toks, 2, n - 1)
        m == Len(inner)
        count == (m + 1) \div 6
        item(j) == SubSeq(inner, 6 * (j - 1) + 1, 6 * (j - 1) + 5)
        is_item(x) == /\ x[1].t = "{" /\ x[2] = Str(<<"url">>) /\ x[3].t = ":"
                      /\ x[4].t = "str" /\ x[5].t = "}"
        shaped == /\ n >= 2 /\ toks[1].t = "[" /\ toks[n].t = "]"
                  /\ (m = 0 \/ (m + 1) % 6 = 0)
                  /\ \A j \in 1..count : is_item(item(j))
                  /\ \A j \in 1..(count - 1) : inner[6 * j].t = ","
    IN  IF shaped
        THEN [ok |-> TRUE, value |-> [j \in 1..count |-> [url |-> item(j)[4].v]]]
        ELSE [ok |-> FALSE, value |-> <<>>]

\* f.write(text) at position 0 of a file opened "r+", then f.truncate()
write_at_start(old, text) == text \o SubSeq(old, Len(text) + 1, Len(old))
truncate(content, pos) == SubSeq(content, 1, pos)

os_remove(f) == NoFile

\* open(path, "w"): the file exists and is empty
open_w(f) == [exists |-> TRUE, data |-> <<>>]

\* __init__ opening the file "a" without removing it: [] lands after what the
\* file held
init_output_file_append(f) ==
    [exists |-> TRUE, data |-> f.data \o json_dump(<<>>, FALSE)]

\* BlogSpider.__init__: remove the file if it exists, open it "w", dump []
init_output_file(f) ==
    LET opened == open_w(IF f.exists THEN os_remove(f) ELSE f)
    IN  [opened EXCEPT !.data = write_at_start(opened.data, json_dump(<<>>, FALSE))]

\* save_link without its f.seek(0): the new array is written where json.load
\* left the position, at the end of the file
save_link_no_seek(f, url) ==
    LET loaded == json_load(f.data)
        data == Append(loaded.value, [url |-> url])
        text == json_dump(data, TRUE)
    IN  IF ~f.exists \/ ~loaded.ok
        THEN [raised |-> TRUE, file |-> f]
        ELSE [raised |-> FALSE, file |-> [f EXCEPT !.data = f.data \o text]]

\* BlogSpider.save_link: [raised, file]
save_link(f, url) ==
    LET loaded == json_load(f.data)
        data == Append(loaded.value, [url |-> url])
        text == json_dump(data, TRUE)
    IN  IF ~f.exists \/ ~loaded.ok
        THEN [raised |-> TRUE, file |-> f]
        ELSE [raised |-> FALSE,
              file |-> [f EXCEPT !.data =
                           truncate(write_at_start(f.data, text), Len(text))]]

----------------------------------------------------------------------------
(* The Link Collector: BlogSpider under the crawling engine.  The engine    *)
(* runs one callback at a time; parse is a generator whose only yield comes *)
(* after its loop, so the loop's iterations are consecutive steps.          *)

\* anchors on one listing page
MaxAnchors == 2

Hrefs ==
    { <<"/blog", "/a">>,
      <<"?", "page=", "2">>,
      <<"/blog", "/a", "?", "s=", "&", "page=", "2">>,
      <<"/x", "/blog">>,
      <<"/about">> }

Anchors ==
    {[href |-> h, in_region |-> TRUE] : h \in Hrefs}
    \cup {[href |-> <<"/blog", "/a">>, in_region |-> FALSE]}

NextPages ==
    { [found |-> FALSE, href |-> <<>>],
      [found |-> TRUE, href |-> <<>>],
      [found |-> TRUE, href |-> <<"?", "page=", "2">>],
      [found |-> TRUE, href |-> <<"/blog", "?", "page=", "3">>] }

AnchorLists == UNION {[1..n -> Anchors] : n \in 0..MaxAnchors}

\* what the link file may hold before a collector starts
OldRecord == [url |-> <<Host, "/blog", "/old">>]
PriorFiles ==
    { NoFile,
      [exists |-> TRUE, data |-> <<>>],
      [exists |-> TRUE, data |-> json_dump(<<>>, FALSE)],
      [exists |-> TRUE, data |-> json_dump(<<OldRecord>>, TRUE)],
      [exists |-> TRUE, data |-> json_dump(<<OldRecord, OldRecord>>, TRUE)],
      [exists |-> TRUE, data |-> <<P("["), P("{")>>] }

Request(url, callback, dont_filter) ==
    [url |-> url, callback |-> callback, dont_filter |-> dont_filter]

\* Scheduler.enqueue_request: a request the dupefilter has seen is dropped,
\* unless it is marked dont_filter (and then the dupefilter is not asked)
enqueue(req, q, df) ==
    IF req.dont_filter THEN [pending |-> q \cup {req}, seen |-> df]
    ELSE IF req.url \in df THEN [pending |-> q, seen |-> df]
    ELSE [pending |-> q \cup {req}, seen |-> df \cup {req.url}]

\* parse yielding the href as it stands, without response.urljoin
next_requests_raw(url, next_page) ==
    IF truthy(next_page)
    THEN <<Request(next_page.href, "parse", FALSE)>>
    ELSE <<>>

\* the request BlogSpider.parse yields after its loop, if any
next_requests(url, next_page) ==
    IF truthy(next_page)
    THEN <<Request(urljoin(url, next_page.href), "parse", FALSE)>>
    ELSE <<>>

CollectInit ==
    /\ stage = "off"
    /\ ran = FALSE
    /\ file \in PriorFiles
    /\ prior = NoFile
    /\ pending = {} /\ seen = {} /\ frame = NoFrame
    /\ saved = <<>> /\ parsed = <<>> /\ yielded = <<>> /\ failed = {}
    /\ links = <<>> /\ cursor = 1 /\ calls = <<>> /\ index = EmptyIndex /\ handled = {}
    /\ split_in = <<>> /\ splitter = text_splitter /\ split_out = <<>>

\* BlogSpider.__init__
BlogSpiderInit ==
    /\ stage = "off"
    /\ stage' = "collect"
    /\ ran' = TRUE
    /\ prior' = file
    /\ file' = init_output_file(file)
    /\ pending' = {} /\ seen' = {} /\ frame' = NoFrame /\ cursor' = 1
    /\ saved' = <<>> /\ parsed' = <<>> /\ yielded' = <<>> /\ failed' = {}
    /\ UNCHANGED <<links, calls, index, handled, split_in, splitter, split_out>>

\* Spider.start_requests: one Request(url, dont_filter=True) per start URL
BlogStartRequests ==
    /\ stage = "collect"
    /\ cursor <= Len(start_urls)
    /\ LET q == enqueue(Request(start_urls[cursor], "parse", TRUE), pending, seen)
       IN  pending' = q.pending /\ seen' = q.seen
    /\ cursor' = cursor + 1
    /\ prior' = NoFile
    /\ UNCHANGED <<stage, ran, file, frame, saved, parsed, yielded, failed,
                   links, calls, index, handled, split_in, splitter, split_out>>

\* a listing page is downloaded and BlogSpider.parse begins on its response;
\* the page's anchors and next link are drawn from the given sets
ParseBeginOn(anchor_lists, next_pages) ==
    /\ stage = "collect"
    /\ ~frame.active
    /\ \E req \in pending : \E anchors \in anchor_lists : \E next_page \in next_pages :
         LET response == [url |-> req.url, anchors |-> anchors]
         IN  /\ req.callback = "parse"
             /\ pending' = pending \ {req}
             /\ parsed' = Append(parsed, req.url)
             /\ frame' = [active |-> TRUE, url |-> req.url,
                          links |-> extract_links(response), i |-> 1,
                          next_page |-> next_page,
                          anchors |-> anchors, base |-> Len(saved)]
    /\ UNCHANGED <<stage, ran, file, prior, seen, saved, yielded, failed, cursor,
                   links, calls, index, handled, split_in, splitter, split_out>>

ParseBegin == ParseBeginOn(AnchorLists, NextPages)

\* one iteration of `for link in links`
ParseLoop ==
    /\ stage = "collect"
    /\ frame.active
    /\ frame.i <= Len(frame.links)
    /\ LET url == frame.links[frame.i]
           r == save_link(file, url)
       IN  IF not_pagination(url)
           THEN IF r.raised
                THEN frame' = NoFrame /\ UNCHANGED <<file, saved>>
                ELSE /\ file' = r.file
                     /\ saved' = Append(saved, url)
                     /\ frame' = [frame EXCEPT !.i = @ + 1]
           ELSE /\ frame' = [frame EXCEPT !.i = @ + 1]
                /\ UNCHANGED <<file, saved>>
    /\ UNCHANGED <<stage, ran, prior, pending, seen, parsed, yielded, failed, cursor,
                   links, calls, index, handled, split_in, splitter, split_out>>

\* after the loop: follow the "next" link, and the generator ends
ParseEnd ==
    /\ stage = "collect"
    /\ frame.active
    /\ frame.i > Len(frame.links)
    /\ LET out == next_requests(frame.url, frame.next_page)
           q == IF out = <<>> THEN [pending |-> pending, seen |-> seen]
                ELSE enqueue(out[1], pending, seen)
       IN  /\ yielded' = yielded \o out
           /\ pending' = q.pending
           /\ seen' = q.seen
    /\ frame' = NoFrame
    /\ UNCHANGED <<stage, ran, file, prior, saved, parsed, failed, cursor,
                   links, calls, index, handled, split_in, splitter, split_out>>

\* a download fails: the request has no errback, and is dropped
DownloadFail ==
    /\ stage \in {"collect", "harvest"}
    /\ ~frame.active
    /\ \E req \in pending :
         /\ pending' = pending \ {req}
         /\ failed' = failed \cup {req.url}
    /\ UNCHANGED <<stage, ran, file, prior, seen, frame, saved, parsed, yielded, cursor,
                   links, calls, index, handled, split_in, splitter, split_out>>

\* the engine closes the spider when nothing is left to do
SpiderClose ==
    /\ stage = "collect"
    /\ cursor > Len(start_urls)
    /\ pending = {}
    /\ ~frame.active
    /\ stage' = "off"
    /\ UNCHANGED <<ran, file, prior, pending, seen, frame, saved, parsed, yielded,
                   failed, cursor, links, calls, index, handled,
                   split_in, splitter, split_out>>

CollectNext ==
    \/ BlogSpiderInit
    \/ BlogStartRequests
    \/ ParseBegin
    \/ ParseLoop
    \/ ParseEnd
    \/ DownloadFail
    \/ SpiderClose

CollectSpec == CollectInit /\ [][CollectNext]_vars

----------------------------------------------------------------------------
(* The Content Harvester: ContentSpider under the crawling engine.          *)

\* records in the link file the harvester reads
MaxRecords == 3

\* article URLs, up to renaming
ArticleUrls == << <<Host, "/blog", "/a">>, <<Host, "/blog", "/b">>, <<Host, "/x", "/blog">> >>

\* the sequences of article URLs in which a URL first occurs after the ones
\* numbered before it (every sequence is one of these up to renaming)
UrlIndexLists ==
    {s \in UNION {[1..n -> 1..Len(ArticleUrls)] : n \in 0..MaxRecords} :
        \A i \in 1..Len(s) : \A u \in 1..(s[i] - 1) : \E j \in 1..(i - 1) : s[j] = u}

\* the link files a collector run can leave
HarvestFiles ==
    {[exists |-> TRUE,
      data |-> json_dump([i \in 1..Len(s) |-> [url |-> ArticleUrls[s[i]]]], TRUE)] :
        s \in UrlIndexLists}

\* an element long enough to be split
LongElement == [i \in 1..(chunk_size + 1) |-> "a"]

\* the texts of the p and li elements of a page's content container
PageBodies ==
    { <<>>,
      << <<" ">> >>,
      << <<>>, <<>> >>,
      << <<"a", " ", "b">> >>,
      << LongElement >> }

\* uuid.uuid4(): its first 8 characters and the rest
UUIDs == {"0a1b2c3d", "4e5f6a7b"} \X {"-x", "-y"}

\* str(uuid)[:8]
first8(uuid) == uuid[1]

\* UpstashVectorStore.add(ids, documents, link): a batch upsert, the item of
\* an id already present replaced
RECURSIVE upsert(_, _, _, _)
upsert(idx, ids, documents, link) ==
    IF ids = <<>> THEN idx
    ELSE upsert([k \in DOMAIN idx \cup {ids[1]} |->
                    IF k = ids[1] THEN [document |-> documents[1], link |-> link]
                    ELSE idx[k]],
                Tail(ids), Tail(documents), link)

\* combined_text of parse_page
combined_text(response) == join(<<"\n">>, response.elements)

\* parse_page without its two guards
parse_page_unguarded(response, uuids) ==
    LET documents == split_text(text_splitter, combined_text(response))
    IN  << [ids |-> [i \in 1..Len(documents) |-> first8(uuids[i])],
            documents |-> documents,
            link |-> response.url] >>

\* parse_page passing the site rather than the page as the link
parse_page_site_link(response, uuids) ==
    LET text == combined_text(response)
        documents == split_text(text_splitter, text)
    IN  IF strip(text) = <<>> THEN <<>>
        ELSE IF Len(documents) = 0 THEN <<>>
        ELSE << [ids |-> [i \in 1..Len(documents) |-> first8(uuids[i])],
                 documents |-> documents,
                 link |-> <<response.url[1]>>] >>

\* parse_page adding its chunks one call at a time
parse_page_per_chunk(response, uuids) ==
    LET text == combined_text(response)
        documents == split_text(text_splitter, text)
    IN  IF strip(text) = <<>> THEN <<>>
        ELSE [i \in 1..Len(documents) |->
                [ids |-> <<first8(uuids[i])>>,
                 documents |-> <<documents[i]>>,
                 link |-> response.url]]

\* the vectorstore.add calls ContentSpider.parse_page makes on a response,
\* given the UUIDs uuid4 returns
parse_page(response, uuids) ==
    LET text == combined_text(response)
        documents == split_text(text_splitter, text)
    IN  IF strip(text) = <<>> THEN <<>>
        ELSE IF Len(documents) = 0 THEN <<>>
        ELSE << [ids |-> [i \in 1..Len(documents) |-> first8(uuids[i])],
                 documents |-> documents,
                 link |-> response.url] >>

\* start_requests leaving out the first link
start_requests_skip_first(records) ==
    [i \in 1..(Len(records) - 1) |-> Request(records[i + 1].url, "parse_page", FALSE)]

\* ContentSpider.start_requests: the requests the generator yields, in order
start_requests(records) ==
    [i \in 1..Len(records) |-> Request(records[i].url, "parse_page", FALSE)]

RECURSIVE apply_calls(_, _)
apply_calls(idx, cs) ==
    IF cs = <<>> THEN idx
    ELSE apply_calls(upsert(idx, cs[1].ids, cs[1].documents, cs[1].link), Tail(cs))

HarvestInit ==
    /\ stage = "off"
    /\ ran = FALSE
    /\ file \in HarvestFiles
    /\ prior = NoFile
    /\ pending = {} /\ seen = {} /\ frame = NoFrame
    /\ saved = <<>> /\ parsed = <<>> /\ yielded = <<>> /\ failed = {}
    /\ links = <<>> /\ cursor = 1 /\ calls = <<>> /\ index = EmptyIndex /\ handled = {}
    /\ split_in = <<>> /\ splitter = text_splitter /\ split_out = <<>>

\* ContentSpider.__init__: json.load of the link file (it raises, and no
\* spider starts, when the file is missing or is not JSON)
ContentSpiderInit ==
    /\ stage = "off"
    /\ ~ran
    /\ file.exists
    /\ json_load(file.data).ok
    /\ links' = json_load(file.data).value
    /\ stage' = "harvest"
    /\ ran' = TRUE
    /\ cursor' = 1
    /\ UNCHANGED <<file, prior, pending, seen, frame, saved, parsed, yielded, failed,
                   calls, index, handled, split_in, splitter, split_out>>

\* ContentSpider.start_requests: the generator yields its next request
ContentStartRequests ==
    /\ stage = "harvest"
    /\ cursor <= Len(start_requests(links))
    /\ LET q == enqueue(start_requests(links)[cursor], pending, seen)
       IN  pending' = q.pending /\ seen' = q.seen
    /\ cursor' = cursor + 1
    /\ UNCHANGED <<stage, ran, file, prior, frame, saved, parsed, yielded, failed,
                   links, calls, index, handled, split_in, splitter, split_out>>

\* a page is downloaded and ContentSpider.parse_page runs on its response
ParsePage ==
    /\ stage = "harvest"
    /\ \E req \in pending : \E body \in PageBodies :
         LET response == [url |-> req.url, elements |-> body]
             n == Len(split_text(text_splitter, combined_text(response)))
         IN  \E uuids \in [1..n -> UUIDs] :
               LET added == parse_page(response, uuids)
               IN  /\ req.callback = "parse_page"
                   /\ pending' = pending \ {req}
                   /\ calls' = calls \o added
                   /\ index' = apply_calls(index, added)
                   /\ handled' = handled \cup
                                   {[url |-> req.url, body |-> body, added |-> added]}
    /\ UNCHANGED <<stage, ran, file, prior, seen, frame, saved, parsed, yielded, failed,
                   links, cursor, split_in, splitter, split_out>>

\* the engine closes the spider when nothing is left to do
HarvestClose ==
    /\ stage = "harvest"
    /\ cursor > Len(start_requests(links))
    /\ pending = {}
    /\ stage' = "off"
    /\ UNCHANGED <<ran, file, prior, pending, seen, frame, saved, parsed, yielded,
                   failed, links, cursor, calls, index, handled,
                   split_in, splitter, split_out>>

HarvestNext ==
    \/ ContentSpiderInit
    \/ ContentStartRequests
    \/ ParsePage
    \/ DownloadFail
    \/ HarvestClose

HarvestSpec == HarvestInit /\ [][HarvestNext]_vars

----------------------------------------------------------------------------
(* The splitter on its own: split_text applied to any short text under any  *)
(* configuration with chunk_overlap < chunk_size up to the spider's.        *)

Alphabet == {"a", "b", " ", "\n"}

Texts == UNION {[1..n -> Alphabet] : n \in 0..MaxText}

SplitterConfigs ==
    {[chunk_size |-> C, chunk_overlap |-> O] : C \in 1..chunk_size, O \in 0..chunk_size}

SplitInit ==
    /\ stage = "split"
    /\ split_in \in Texts
    /\ splitter \in {c \in SplitterConfigs : c.chunk_overlap < c.chunk_size}
    /\ split_out = <<>>
    /\ ran = FALSE /\ file = NoFile /\ prior = NoFile
    /\ pending = {} /\ seen = {} /\ frame = NoFrame
    /\ saved = <<>> /\ parsed = <<>> /\ yielded = <<>> /\ failed = {}
    /\ links = <<>> /\ cursor = 1 /\ calls = <<>> /\ index = EmptyIndex /\ handled = {}

SplitCall ==
    /\ stage = "split"
    /\ stage' = "split_done"
    /\ split_out' = split_text(splitter, split_in)
    /\ UNCHANGED <<ran, file, prior, pending, seen, frame, saved, parsed, yielded,
                   failed, links, cursor, calls, index, handled, split_in, splitter>>

SplitNext == SplitCall

SplitSpec == SplitInit /\ [][SplitNext]_vars

----------------------------------------------------------------------------
(* The collector following a chain of listing pages to its end, and the     *)
(* harvester working through its links.  The engine keeps going while it    *)
(* has something to do: it takes the next start request, downloads a queued *)
(* request (the download succeeds or fails), resumes the callback it has    *)
(* begun, and closes the spider once idle.  Starting a spider is left to    *)
(* its user.  The listing pages of a chain hold no link or one article      *)
(* link, and any of the next links.                                         *)

ChainAnchorLists == {<<>>, <<[href |-> <<"/blog", "/a">>, in_region |-> TRUE]>>}

ChainParseBegin == ParseBeginOn(ChainAnchorLists, NextPages)

ChainEngineStep ==
    \/ BlogStartRequests
    \/ ChainParseBegin
    \/ ParseLoop
    \/ ParseEnd
    \/ DownloadFail
    \/ SpiderClose

ChainNext == BlogSpiderInit \/ ChainEngineStep

ChainSpec == CollectInit /\ [][ChainNext]_vars /\ WF_vars(ChainEngineStep)

HarvestEngineStep ==
    ContentStartRequests \/ ParsePage \/ DownloadFail \/ HarvestClose

FairHarvestSpec == HarvestSpec /\ WF_vars(HarvestEngineStep)

----------------------------------------------------------------------------
(* Properties *)

Range(s) == {s[i] : i \in 1..Len(s)}

NoRepeats(s) == \A i, j \in 1..Len(s) : i # j => s[i] # s[j]

\* the URLs of the records the link file holds
FileUrls(f) == LET v == json_load(f.data).value IN [i \in 1..Len(v) |-> v[i].url]

EmptyArrayFile == [exists |-> TRUE, data |-> <<P("["), P("]")>>]

\* --- C1 ---
\* the first piece of the URL's path is /blog
PathBeginsWithBlog(url) == Len(url) >= 2 /\ url[2] = "/blog"

\* the URL's query string contains page=
QueryHasPageMarker(url) ==
    \E i, j \in 1..Len(url) : i < j /\ url[i] = "?" /\ url[j] = "page="

\* the links of a page the claim calls qualifying and not pagination links
QualifyingUrls(url, anchors) ==
    LET inside == SelectSeq(anchors, LAMBDA a : a.in_region)
        urls == [i \in 1..Len(inside) |-> urljoin(url, inside[i].href)]
    IN  SelectSeq(urls, LAMBDA u : PathBeginsWithBlog(u) /\ ~QueryHasPageMarker(u))

\* the records the file has gained since the parse call in progress began
Gained == LET u == FileUrls(file) IN SubSeq(u, frame.base + 1, Len(u))

\* C1: once BlogSpider.parse has gone through a listing page, the link file
\* has gained exactly one record per link of the restricted region whose path
\* begins with /blog and whose query string holds no page= marker, in page
\* order, and no record of a link whose query string holds the marker.
C1_ExactlyQualifyingLinks ==
    (frame.active /\ frame.i > Len(frame.links))
        => Gained = QualifyingUrls(frame.url, frame.anchors)

\* --- C2 ---
\* C2: right after BlogSpider.__init__ the link file is the empty JSON array,
\* whatever the file was before; and once a collector has started, the file
\* holds no record but those saved during the run.
C2_ResetOnStart ==
    /\ (stage = "collect" /\ cursor = 1) => file = EmptyArrayFile
    /\ (ran /\ stage \in {"collect", "off"})
          => (file.exists /\ json_load(file.data).ok
              /\ Range(FileUrls(file)) \subseteq Range(saved))

\* a collector has just started on a file that held the records an earlier
\* run of this behaviour saved, and the file is the empty array
C2_Witness ==
    /\ stage = "collect" /\ cursor = 1
    /\ prior.exists /\ json_load(prior.data).ok
    /\ Len(FileUrls(prior)) >= 2
    /\ OldRecord.url \notin Range(FileUrls(prior))
    /\ file = EmptyArrayFile

\* --- C10 ---
\* C10: during and after a collector run the link file is a well-formed JSON
\* array holding exactly the links passed to save_link so far, in the order
\* they were saved (so each save_link appended one record and changed none).
C10_FileIsSavedLinks ==
    (ran /\ stage \in {"collect", "off"})
        => /\ file.exists
           /\ json_load(file.data).ok
           /\ FileUrls(file) = saved
           /\ file.data = json_dump([i \in 1..Len(saved) |-> [url |-> saved[i]]],
                                    saved # <<>>)

\* three links saved by the parse calls of at least two listing pages
C10_Witness ==
    /\ stage = "collect"
    /\ Len(parsed) >= 2
    /\ Len(saved) >= 3
    /\ frame.active /\ frame.base >= 1 /\ Len(saved) > frame.base
    /\ FileUrls(file) = saved

\* --- C7 ---
\* the URLs requested in this run: the start URLs and the targets yielded
Requested == start_urls \o [i \in 1..Len(yielded) |-> yielded[i].url]

\* a step in which a parse call ends after its loop
ParseEndStep == frame.active /\ frame.i > Len(frame.links) /\ ~frame'.active

\* C7: a parse call that ends on a page with a next link yields exactly one
\* request, for that link resolved against the page's URL and with parse as
\* its callback, and a page without one yields none; the pages parsed are the
\* start page and targets of yielded requests, each parsed once when the
\* pages form a chain (no URL is requested twice); every collector run ends,
\* and when it has ended every requested page was parsed, unless its
\* download failed.
C7_FollowsNextLinks ==
    /\ [][ParseEndStep =>
            yielded' = yielded \o
                (IF frame.next_page.found /\ frame.next_page.href # <<>>
                 THEN <<[url |-> urljoin(frame.url, frame.next_page.href),
                         callback |-> "parse", dont_filter |-> FALSE]>>
                 ELSE <<>>)]_vars
    /\ [](stage = "collect" =>
            /\ Range(parsed) \subseteq Range(Requested)
            /\ (NoRepeats(Requested) => NoRepeats(parsed)))
    /\ [](stage = "off" /\ ran /\ NoRepeats(Requested) =>
            /\ Range(Requested) = Range(parsed) \cup failed
            /\ Range(parsed) \cap failed = {})
    /\ (stage = "collect") ~> (stage = "off")

\* a run over a chain of three listing pages has ended, every page parsed
C7_Witness ==
    /\ stage = "off" /\ ran
    /\ Len(parsed) = 3 /\ NoRepeats(parsed) /\ failed = {}
    /\ Len(yielded) = 2

\* --- the harvester's pages ---
\* the combined text of a handled page, and the chunks it splits into
PageText(h) == combined_text([url |-> h.url, elements |-> h.body])
Blank(h) == strip(PageText(h)) = <<>>
Chunks(h) == split_text(text_splitter, PageText(h))

\* --- C3 ---
\* C3: the parse_page call of a page whose combined text is empty or only
\* whitespace, or whose text splits into zero chunks, makes no vectorstore.add
\* call: the calls made so far are the same after it as before it.
C3_BlankPagesNotUpserted ==
    [][\A h \in handled' \ handled :
          (Blank(h) \/ Len(Chunks(h)) = 0) => calls' = calls]_vars

\* a whitespace-only page and an empty page were handled without a call, and
\* a page with text with one
C3_Witness ==
    /\ \E h \in handled : Blank(h) /\ PageText(h) # <<>> /\ h.added = <<>>
    /\ \E h \in handled : PageText(h) = <<>> /\ h.added = <<>>
    /\ \E h \in handled : ~Blank(h) /\ h.added # <<>>
    /\ Len(calls) = 1

\* --- C4 ---
\* C4: every vectorstore.add call carries as its link the URL of the page the
\* parse_page call that made it was handling: the calls a parse_page step adds
\* have the step's page as link, and at every moment each call made has the
\* URL of a handled page of the link file whose chunks are its documents,
\* whatever the order of the callbacks.
C4_ChunksCarryPageUrl ==
    /\ [][\A h \in handled' \ handled :
            \A i \in (Len(calls) + 1)..Len(calls') : calls'[i].link = h.url]_vars
    /\ [](\A i \in 1..Len(calls) :
            /\ calls[i].link \in Range(FileUrls(file))
            /\ \E h \in handled :
                 h.url = calls[i].link /\ calls[i].documents = Chunks(h))

\* chunks of three pages with distinct URLs were submitted, the pages'
\* callbacks out of the file's order
C4_Witness ==
    /\ Cardinality({calls[i].link : i \in 1..Len(calls)}) >= 3
    /\ Len(calls) = 3
    /\ calls[1].link = links[3].url

\* --- C5 ---
\* C5: no two chunks submitted during a harvester run, in one call or in two,
\* have the same identifier.
C5_IdsUnique ==
    \A i, j \in 1..Len(calls) :
        \A a \in 1..Len(calls[i].ids) : \A b \in 1..Len(calls[j].ids) :
            (i # j \/ a # b) => calls[i].ids[a] # calls[j].ids[b]

\* --- C9 ---
\* C9: a handled page whose text splits into at least one chunk got exactly
\* one vectorstore.add call, whose documents are all the page's chunks in
\* order and whose ids are as many; every call made is the one call of one
\* handled page, so there are as many calls as pages with chunks.
C9_OneCallPerPage ==
    /\ \A h \in handled :
          Len(Chunks(h)) >= 1 =>
              /\ Len(h.added) = 1
              /\ h.added[1].documents = Chunks(h)
              /\ DOMAIN h.added[1].ids = DOMAIN Chunks(h)
              /\ \E i \in 1..Len(calls) : calls[i] = h.added[1]
    /\ \A i \in 1..Len(calls) : \E h \in handled : h.added = <<calls[i]>>
    /\ Len(calls) = Cardinality({h \in handled : Len(Chunks(h)) >= 1})

\* a page of two chunks went out in one call, after or before another page's
C9_Witness ==
    /\ Len(calls) >= 2
    /\ \E i \in 1..Len(calls) :
          Len(calls[i].documents) >= 2 /\ Len(calls[i].ids) = Len(calls[i].documents)

\* --- C6 ---
\* the URLs a download was made for: its response was handled, or it failed
Fetched == {h.url : h \in handled} \cup failed

\* C6: a harvester run ends, and when it has ended a fetch was issued for the
\* URL of every record the link file held at its start, repeated URLs
\* included; and every handled page whose text is not blank has had its chunks
\* submitted in a vectorstore.add call.
C6_EveryRecordHarvested ==
    /\ (stage = "harvest") ~>
          (stage = "off" /\ Range(FileUrls(file)) \subseteq Fetched)
    /\ [](\A h \in handled :
            ~Blank(h) =>
                \E i \in 1..Len(calls) :
                    /\ calls[i].link = h.url
                    /\ calls[i].documents = Chunks(h)
                    /\ calls[i].documents # <<>>)

\* a run over a file of three records, two with one URL, has ended with both
\* pages handled and their chunks submitted
C6_Witness ==
    /\ stage = "off" /\ ran
    /\ Len(FileUrls(file)) = 3
    /\ Cardinality(Range(FileUrls(file))) = 2
    /\ failed = {}
    /\ Cardinality(handled) = 2
    /\ Len(calls) = 2

\* --- C8 ---
\* the chunks lie in the text one after another: each is a piece of the text
\* that begins no earlier and ends no earlier than the one before, and shares
\* at most O characters with it
RECURSIVE Placed(_, _, _, _, _)
Placed(chunks, text, O, prevStart, prevEnd) ==
    \/ chunks = <<>>
    \/ LET c == Head(chunks)
       IN  \E p \in 1..(Len(text) - Len(c) + 1) :
               /\ SubSeq(text, p, p + Len(c) - 1) = c
               /\ p >= prevStart /\ p + Len(c) - 1 >= prevEnd
               /\ prevEnd - p + 1 <= O
               /\ Placed(Tail(chunks), text, O, p, p + Len(c) - 1)

\* C8: for a splitter of chunk size C and overlap O < C, every chunk of
\* split_text has at least one and at most C characters, and the chunks are
\* pieces of the text in document order, each beginning within the last O
\* characters of the one before it or after it.
C8_ChunksBoundedOrderedOverlapping ==
    stage = "split_done" =>
        /\ \A i \in 1..Len(split_out) :
              Len(split_out[i]) >= 1 /\ Len(split_out[i]) <= splitter.chunk_size
        /\ Placed(split_out, split_in, splitter.chunk_overlap, 0, 0)

\* the spider's splitter has cut a text into two chunks, the second beginning
\* with the last character of the first
C8_Witness ==
    /\ stage = "split_done"
    /\ splitter = text_splitter
    /\ Len(split_out) = 2
    /\ Len(split_out[1]) = chunk_size
    /\ Len(split_out[1]) + Len(split_out[2]) > Len(split_in)
    /\ split_out[2][1] = split_out[1][Len(split_out[1])]

====
